---- MODULE Spec2Model ----
(***************************************************************************)
(* identity-traversal: the mask parser, the host classifier, the query     *)
(* fingerprints (src/src/hostmask.rs) and the correlation loop of          *)
(* run_worker (src/src/main.rs).                                           *)
(*                                                                         *)
(* A text is a sequence of characters, each character a one-character      *)
(* string.  A Rust &str is indexed by BYTE, so each character has its      *)
(* UTF-8 width: one for ASCII, two for the non-ASCII letter of the         *)
(* alphabet, written "U+00E9".                                             *)
(***************************************************************************)
EXTENDS Integers, Sequences, FiniteSets, Bags, TLC

-----------------------------------------------------------------------------
(* Characters *)

Digit == {"0", "1", "2", "3", "4", "5", "6", "7", "8", "9"}

HexLetter == {"a", "b", "c", "d", "e", "f", "A", "B", "C", "D", "E", "F"}

HexDigit == Digit \cup HexLetter

Letter == HexLetter \cup
    {"g", "h", "i", "j", "k", "l", "m", "n", "o", "p", "q", "r", "s", "t",
     "u", "v", "w", "x", "y", "z",
     "G", "H", "I", "J", "K", "L", "M", "N", "O", "P", "Q", "R", "S", "T",
     "U", "V", "W", "X", "Y", "Z"}

\* The characters of the model that are not ASCII: a two-byte letter.
NonAscii == {"U+00E9"}

\* char::len_utf8
Utf8Len(c) == IF c \in NonAscii THEN 2 ELSE 1

\* \w of the regex crate (Unicode aware: a non-ASCII letter is a word character)
IsWord(c) == c \in Letter \cup Digit \cup {"_"} \cup NonAscii

DigitValue(c) ==
    CASE c = "0" -> 0 [] c = "1" -> 1 [] c = "2" -> 2 [] c = "3" -> 3
      [] c = "4" -> 4 [] c = "5" -> 5 [] c = "6" -> 6 [] c = "7" -> 7
      [] c = "8" -> 8 [] c = "9" -> 9
      [] c \in {"a", "A"} -> 10 [] c \in {"b", "B"} -> 11
      [] c \in {"c", "C"} -> 12 [] c \in {"d", "D"} -> 13
      [] c \in {"e", "E"} -> 14 [] c \in {"f", "F"} -> 15

DigitChar(d) ==
    CASE d = 0 -> "0" [] d = 1 -> "1" [] d = 2 -> "2" [] d = 3 -> "3"
      [] d = 4 -> "4" [] d = 5 -> "5" [] d = 6 -> "6" [] d = 7 -> "7"
      [] d = 8 -> "8" [] d = 9 -> "9"

-----------------------------------------------------------------------------
(* &str: byte length, byte-indexed slices *)

RECURSIVE ByteLen(_)
\* str::len: the length in bytes
ByteLen(s) == IF s = <<>> THEN 0 ELSE Utf8Len(Head(s)) + ByteLen(Tail(s))

\* The byte offset at which the k-th character (1-based) starts.
ByteStart(s, k) == ByteLen(SubSeq(s, 1, k - 1))

\* str::is_char_boundary
IsCharBoundary(s, b) == \E k \in 1..(Len(s) + 1) : ByteStart(s, k) = b

\* &s[a..b] with byte offsets a, b: it panics when a > b, when b is past the
\* end, or when a or b falls inside a character.
SliceOk(s, a, b) == a <= b /\ IsCharBoundary(s, a) /\ IsCharBoundary(s, b)

\* The characters of &s[a..b], for a slice that does not panic.
Slice(s, a, b) ==
    LET ks == {k \in 1..Len(s) : ByteStart(s, k) >= a /\ ByteStart(s, k) < b}
    IN  IF ks = {} THEN <<>>
        ELSE SubSeq(s, CHOOSE k \in ks : \A j \in ks : k <= j,
                       CHOOSE k \in ks : \A j \in ks : k >= j)

RECURSIVE Replace(_, _, _)
\* str::replace of one character by another
Replace(s, from, to) ==
    IF s = <<>> THEN <<>>
    ELSE <<IF Head(s) = from THEN to ELSE Head(s)>> \o Replace(Tail(s), from, to)

RECURSIVE Position(_, _)
\* Iterator::position over chars(): the number of characters before the first
\* c, or -1 (None) when there is none.  It counts CHARACTERS, not bytes.
Position(s, c) ==
    IF s = <<>> THEN -1
    ELSE IF Head(s) = c THEN 0
    ELSE LET r == Position(Tail(s), c) IN IF r = -1 THEN -1 ELSE r + 1

-----------------------------------------------------------------------------
(* The regex crate's matching: leftmost-first, as a backtracking search.   *)
(* A pattern is a tree: <<"set", S>> one character of S, <<"wb">> the word *)
(* boundary \b, <<"cat", <<r1, ..., rn>> >>, <<"alt", <<r1, ..., rn>> >>    *)
(* in priority order, <<"rep", r, min, max>> the greedy r{min,max}, with   *)
(* max = -1 for no upper limit.                                            *)
(* Ends(re, s, p) lists, in the order a backtracking matcher tries them,   *)
(* the offsets at which a match of re starting at offset p can end.        *)

RECURSIVE Dedup(_, _)
\* A sequence without its later repetitions (the order of first occurrences)
Dedup(seq, seen) ==
    IF seq = <<>> THEN <<>>
    ELSE IF Head(seq) \in seen THEN Dedup(Tail(seq), seen)
    ELSE <<Head(seq)>> \o Dedup(Tail(seq), seen \cup {Head(seq)})

\* \b at offset p: exactly one of the characters around p is a word character
IsWordBoundary(s, p) ==
    LET before == p >= 1 /\ IsWord(s[p])
        after  == p < Len(s) /\ IsWord(s[p + 1])
    IN  before # after

RECURSIVE Ends(_, _, _)
RECURSIVE EndsCat(_, _, _)
RECURSIVE EndsAlt(_, _, _)
RECURSIVE EndsFrom(_, _, _)
\* The ends of re started at each offset of ps, in order
EndsFrom(re, s, ps) ==
    IF ps = <<>> THEN <<>>
    ELSE Ends(re, s, Head(ps)) \o EndsFrom(re, s, Tail(ps))

EndsCat(res, s, p) ==
    IF res = <<>> THEN <<p>>
    ELSE EndsFrom(<<"cat", Tail(res)>>, s, Dedup(Ends(Head(res), s, p), {}))

EndsAlt(res, s, p) ==
    IF res = <<>> THEN <<>>
    ELSE Ends(Head(res), s, p) \o EndsAlt(Tail(res), s, p)

Ends(re, s, p) ==
    CASE re[1] = "set" -> IF p < Len(s) /\ s[p + 1] \in re[2] THEN <<p + 1>> ELSE <<>>
      [] re[1] = "wb"  -> IF IsWordBoundary(s, p) THEN <<p>> ELSE <<>>
      [] re[1] = "cat" -> Dedup(EndsCat(re[2], s, p), {})
      [] re[1] = "alt" -> Dedup(EndsAlt(re[2], s, p), {})
      [] re[1] = "rep" ->
            IF re[4] = 0 THEN <<p>>
            ELSE LET more == EndsFrom(<<"rep", re[2],
                                        IF re[3] = 0 THEN 0 ELSE re[3] - 1,
                                        IF re[4] = -1 THEN -1 ELSE re[4] - 1>>,
                                      s, Dedup(Ends(re[2], s, p), {}))
                 IN  Dedup(IF re[3] = 0 THEN more \o <<p>> ELSE more, {})

RECURSIVE FindFrom(_, _, _)
\* Regex::find: the match at the leftmost offset where one starts, and at
\* that offset the first one in priority order.  <<>> when there is none,
\* else <<start, end>> (offsets in characters).
FindFrom(re, s, p) ==
    IF p > Len(s) THEN <<>>
    ELSE LET es == Ends(re, s, p)
         IN  IF es # <<>> THEN <<p, Head(es)>> ELSE FindFrom(re, s, p + 1)

Find(re, s) == FindFrom(re, s, 0)

\* Match::as_str
MatchStr(s, m) == SubSeq(s, m[1] + 1, m[2])

\* Pattern builders
Ch(c) == <<"set", {c}>>
Cat(rs) == <<"cat", rs>>
Alt(rs) == <<"alt", rs>>
Rep(r, lo, hi) == <<"rep", r, lo, hi>>
Opt(r) == <<"rep", r, 0, 1>>
Eps == <<"cat", <<>> >>

-----------------------------------------------------------------------------
(* std::net address parsing *)

RECURSIVE SplitAcc(_, _, _)
SplitAcc(s, sep, cur) ==
    IF s = <<>> THEN <<cur>>
    ELSE IF Head(s) = sep THEN <<cur>> \o SplitAcc(Tail(s), sep, <<>>)
    ELSE SplitAcc(Tail(s), sep, Append(cur, Head(s)))

\* The pieces of s between the occurrences of the character sep
Split(s, sep) == SplitAcc(s, sep, <<>>)

RECURSIVE NumValue(_, _)
\* The value of a digit string in the given radix
NumValue(s, radix) ==
    IF s = <<>> THEN 0
    ELSE NumValue(SubSeq(s, 1, Len(s) - 1), radix) * radix + DigitValue(s[Len(s)])

\* One decimal octet of Ipv4Addr::from_str: one to three digits, no leading
\* zero, at most 255
IsOctet(g) ==
    /\ Len(g) \in 1..3
    /\ \A k \in 1..Len(g) : g[k] \in Digit
    /\ (Len(g) > 1 => g[1] # "0")
    /\ NumValue(g, 10) <= 255

None == <<"None">>

\* Ipv4Addr::from_str: four octets separated by dots and nothing else
ParseIpv4(s) ==
    LET gs == Split(s, ".")
    IN  IF Len(gs) = 4 /\ \A k \in 1..4 : IsOctet(gs[k])
        THEN <<"V4", [k \in 1..4 |-> NumValue(gs[k], 10)]>>
        ELSE None

\* One group of Ipv6Addr::from_str: one to four hexadecimal digits
IsGroup(g) == Len(g) \in 1..4 /\ \A k \in 1..Len(g) : g[k] \in HexDigit

\* The groups of one side of an address: <<>> for an empty side
SideGroups(s) == IF s = <<>> THEN <<>> ELSE Split(s, ":")

\* The 16-bit groups a side stands for ([ok, v]): hexadecimal groups, the
\* last of which may be a dotted IPv4 address (two groups) when v4ok
SideValue(gs, v4ok) ==
    IF gs = <<>> THEN [ok |-> TRUE, v |-> <<>>]
    ELSE LET n    == Len(gs)
             v4   == ParseIpv4(gs[n])
         IN  IF \A k \in 1..n : IsGroup(gs[k])
             THEN [ok |-> TRUE, v |-> [k \in 1..n |-> NumValue(gs[k], 16)]]
             ELSE IF v4ok /\ v4[1] = "V4" /\ \A k \in 1..(n - 1) : IsGroup(gs[k])
             THEN [ok |-> TRUE,
                   v  |-> [k \in 1..(n - 1) |-> NumValue(gs[k], 16)]
                          \o <<v4[2][1] * 256 + v4[2][2], v4[2][3] * 256 + v4[2][4]>>]
             ELSE [ok |-> FALSE, v |-> <<>>]

\* The offset of the first "::" of s, or -1
DoubleColon(s) ==
    LET ks == {k \in 1..(Len(s) - 1) : s[k] = ":" /\ s[k + 1] = ":"}
    IN  IF ks = {} THEN -1 ELSE CHOOSE k \in ks : \A j \in ks : k <= j

\* Ipv6Addr::from_str: eight groups, or fewer around one "::" that stands
\* for at least one group of zeros; no zone identifier
ParseIpv6(s) ==
    LET dc == DoubleColon(s)
    IN  IF dc = -1
        THEN LET all == SideValue(SideGroups(s), TRUE)
             IN  IF all.ok /\ Len(all.v) = 8 THEN <<"V6", all.v>> ELSE None
        ELSE LET head == SideValue(SideGroups(SubSeq(s, 1, dc - 1)), FALSE)
                 tail == SideValue(SideGroups(SubSeq(s, dc + 2, Len(s))), TRUE)
                 zeros == [k \in 1..(8 - Len(head.v) - Len(tail.v)) |-> 0]
             IN  IF head.ok /\ tail.ok /\ Len(head.v) + Len(tail.v) <= 7
                 THEN <<"V6", head.v \o zeros \o tail.v>>
                 ELSE None

\* str::parse::<IpAddr>: an IPv4 address, else an IPv6 address
ParseIpAddr(s) == IF ParseIpv4(s)[1] = "V4" THEN ParseIpv4(s) ELSE ParseIpv6(s)

-----------------------------------------------------------------------------
(* Host: Host(String, Option<IpAddr>, bool) as <<text, address, subnet>> *)

\* 25[0-5]|(2[0-4]|1\d|[1-9]|)\d
ReOctetV4 ==
    Alt(<<Cat(<<Ch("2"), Ch("5"), <<"set", {"0", "1", "2", "3", "4", "5"}>> >>),
          Cat(<<Alt(<<Cat(<<Ch("2"), <<"set", {"0", "1", "2", "3", "4"}>> >>),
                      Cat(<<Ch("1"), <<"set", Digit>> >>),
                      <<"set", Digit \ {"0"}>>,
                      Eps>>),
                <<"set", Digit>> >>)>>)

\* ((25[0-5]|(2[0-4]|1\d|[1-9]|)\d)(\.|-)?\b){4}
ReIpv4 ==
    Rep(Cat(<<ReOctetV4, Opt(Alt(<<Ch("."), Ch("-")>>)), <<"wb">> >>), 4, 4)

\* [0-9a-fA-F]{1,4}
ReH == Rep(<<"set", HexDigit>>, 1, 4)

\* [0-9a-fA-F]{1,4}:
ReHC == Cat(<<ReH, Ch(":")>>)

\* :[0-9a-fA-F]{1,4}
ReCH == Cat(<<Ch(":"), ReH>>)

\* 25[0-5]|(2[0-4]|1{0,1}[0-9]){0,1}[0-9]
ReOctetV6 ==
    Alt(<<Cat(<<Ch("2"), Ch("5"), <<"set", {"0", "1", "2", "3", "4", "5"}>> >>),
          Cat(<<Opt(Alt(<<Cat(<<Ch("2"), <<"set", {"0", "1", "2", "3", "4"}>> >>),
                          Cat(<<Opt(Ch("1")), <<"set", Digit>> >>)>>)),
                <<"set", Digit>> >>)>>)

\* ((25[0-5]|...)\.){3,3}(25[0-5]|...)
ReDotted == Cat(<<Rep(Cat(<<ReOctetV6, Ch(".")>>), 3, 3), ReOctetV6>>)

\* The twelve alternatives of the IPv6 pattern, in their order
ReIpv6 ==
    Alt(<<Cat(<<Rep(ReHC, 7, 7), ReH>>),
          Cat(<<Rep(ReHC, 1, 7), Ch(":")>>),
          Cat(<<Rep(ReHC, 1, 6), Ch(":"), ReH>>),
          Cat(<<Rep(ReHC, 1, 5), Rep(ReCH, 1, 2)>>),
          Cat(<<Rep(ReHC, 1, 4), Rep(ReCH, 1, 3)>>),
          Cat(<<Rep(ReHC, 1, 3), Rep(ReCH, 1, 4)>>),
          Cat(<<Rep(ReHC, 1, 2), Rep(ReCH, 1, 5)>>),
          Cat(<<ReH, Ch(":"), Rep(ReCH, 1, 6)>>),
          Cat(<<Ch(":"), Alt(<<Rep(ReCH, 1, 7), Ch(":")>>)>>),
          Cat(<<Ch("f"), Ch("e"), Ch("8"), Ch("0"), Ch(":"),
                Rep(Cat(<<Ch(":"), Rep(<<"set", HexDigit>>, 0, 4)>>), 0, 4),
                Ch("%"),
                Rep(<<"set", Digit \cup Letter>>, 1, -1)>>),
          Cat(<<Ch(":"), Ch(":"),
                Opt(Cat(<<Ch("f"), Ch("f"), Ch("f"), Ch("f"),
                          Opt(Cat(<<Ch(":"), Rep(Ch("0"), 1, 4)>>)), Ch(":")>>)),
                ReDotted>>),
          Cat(<<Rep(ReHC, 1, 4), Ch(":"), ReDotted>>)>>)

Ok(v) == [tag |-> "Ok", v |-> v]
Err(e) == [tag |-> "Err", err |-> e]
Panic == [tag |-> "Panic"]

\* The first branch of Host::from, for a text in which the IPv4 pattern
\* matches at m: a trailing '.' is cut, '-' become '.', and the text is
\* parsed; a text that does not parse leaves the address None.
HostFromV4(s, m) ==
    LET found == MatchStr(s, m)
        cut   == IF found[Len(found)] = "."
                 THEN SubSeq(found, 1, Len(found) - 1) ELSE found
        addr  == Replace(cut, "-", ".")
    IN  <<s, ParseIpAddr(addr), FALSE>>

\* impl From<&str> for Host.  The IPv6 branch unwraps the parse of the
\* matched text: a match that does not parse panics.
HostFrom(s) ==
    LET m4 == Find(ReIpv4, s)
    IN  IF m4 # <<>> THEN Ok(HostFromV4(s, m4))
        ELSE LET m6 == Find(ReIpv6, s)
             IN  IF m6 = <<>> THEN Ok(<<s, None, FALSE>>)
                 ELSE LET a == ParseIpv6(MatchStr(s, m6))
                      IN  IF a[1] = "None" THEN Panic ELSE Ok(<<s, a, FALSE>>)

-----------------------------------------------------------------------------
(* HostMask: [nick, ident, host, subnet] *)

\* A parser that looks for the '@' before it looks for the '!'
FromStrHostFirst(s) ==
    IF Position(s, "@") = -1 THEN Err("MissingHost")
    ELSE IF Position(s, "!") = -1 THEN Err("MissingIdent")
    ELSE Panic

\* impl FromStr for HostMask.  nick and ident are positions counted in
\* CHARACTERS (chars().position, the second one counted from the character
\* after the '!'); the three slices index the text by BYTE.  The fields are
\* built in order: nick, ident, host.
FromStr(s) ==
    LET nick == Position(s, "!")
    IN  IF nick = -1 THEN Err("MissingIdent")
        ELSE
        LET ident == Position(SubSeq(s, nick + 2, Len(s)), "@")
        IN  IF ident = -1 THEN Err("MissingHost")
            ELSE IF ~SliceOk(s, 0, nick) THEN Panic
            ELSE IF ~SliceOk(s, nick + 1, nick + ident + 1) THEN Panic
            ELSE IF ~SliceOk(s, nick + ident + 2, ByteLen(s)) THEN Panic
            ELSE LET host == HostFrom(Slice(s, nick + ident + 2, ByteLen(s)))
                 IN  IF host.tag = "Panic" THEN Panic
                     ELSE Ok([nick   |-> Slice(s, 0, nick),
                              ident  |-> Slice(s, nick + 1, nick + ident + 1),
                              host   |-> host.v,
                              subnet |-> FALSE])

-----------------------------------------------------------------------------
(* Query: the fingerprint of each component *)

RECURSIVE U8ToString(_)
\* u8::to_string
U8ToString(n) ==
    IF n < 10 THEN <<DigitChar(n)>>
    ELSE U8ToString(n \div 10) \o <<DigitChar(n % 10)>>

RECURSIVE Join(_, _)
\* Itertools::join
Join(parts, sep) ==
    IF parts = <<>> THEN <<>>
    ELSE IF Len(parts) = 1 THEN parts[1]
    ELSE parts[1] \o sep \o Join(Tail(parts), sep)

\* impl Query for Nick
NickQuery(n) == n \o <<"%">>

\* impl Query for Ident
IdentQuery(id) == <<"%">> \o id \o <<"%">>

\* A fingerprint of the first three octets whatever the flag
HostQueryThree(h) ==
    IF h[2][1] = "V4"
    THEN <<"%">> \o Join([k \in 1..3 |-> U8ToString(h[2][2][k])], <<"_">>) \o <<"%">>
    ELSE <<"%">> \o h[1]

\* impl Query for Host: the first three octets when the HOST's own flag
\* (self.2) is set, else all four; any other host by its text
HostQuery(h) ==
    IF h[2][1] = "V4"
    THEN LET n == IF h[3] THEN 3 ELSE 4
             safe_mask == Join([k \in 1..n |-> U8ToString(h[2][2][k])], <<"_">>)
         IN  <<"%">> \o safe_mask \o <<"%">>
    ELSE <<"%">> \o h[1]

\* An equality of hosts on all three fields
HostEqAllFields(a, b) == a = b

\* impl PartialEq for Host: the text alone
HostEq(a, b) == a[1] = b[1]

-----------------------------------------------------------------------------
(* The store: SELECT senderid, sender, realname FROM sender                *)
(*            WHERE sender LIKE $1::TEXT                                   *)

RECURSIVE Like(_, _)
\* SQL LIKE: % matches any run of characters, _ any one character
Like(t, pat) ==
    IF pat = <<>> THEN t = <<>>
    ELSE IF Head(pat) = "%"
         THEN Like(t, Tail(pat)) \/ (t # <<>> /\ Like(Tail(t), pat))
    ELSE /\ t # <<>>
         /\ (Head(pat) = "_" \/ Head(pat) = Head(t))
         /\ Like(Tail(t), Tail(pat))

\* search: the rows of the store whose sender text matches the pattern
Search(rows, pattern) == {row \in rows : Like(row.sender, pattern)}

-----------------------------------------------------------------------------
(* Sender: [id, sender, realname] *)

\* impl TryFrom<&Row> for Sender
SenderTryFrom(row) ==
    LET m == FromStr(row.sender)
    IN  IF m.tag = "Ok"
        THEN Ok([id |-> row.id, sender |-> m.v, realname |-> None])
        ELSE m

\* derive(PartialEq) for HostMask, with Host's own eq
MaskEq(a, b) ==
    /\ a.nick = b.nick
    /\ a.ident = b.ident
    /\ HostEq(a.host, b.host)
    /\ a.subnet = b.subnet

\* An equality of senders that leaves the id out
SenderEqMaskOnly(a, b) ==
    MaskEq(a.sender, b.sender) /\ a.realname = b.realname

\* derive(PartialEq) for Sender
SenderEq(a, b) ==
    a.id = b.id /\ MaskEq(a.sender, b.sender) /\ a.realname = b.realname

\* An insert that takes every sender for new
SenderInsertAlwaysNew(set, x) ==
    {[set |-> set \cup {x}, new |-> TRUE]}

\* HashSet<Sender>::insert: the outcomes it can have, each [set, new], new
\* being the bool it returns.  Sender, HostMask and Host derive Hash, over
\* all the fields of Host, while equality goes through Host's own eq: a
\* sender of the set that is equal to x and not the same in every field
\* hashes differently, and is found only if the two hashes happen to meet.
SenderInsert(set, x) ==
    IF x \in set THEN {[set |-> set, new |-> FALSE]}
    ELSE IF \E y \in set : SenderEq(y, x)
    THEN {[set |-> set, new |-> FALSE], [set |-> set \cup {x}, new |-> TRUE]}
    ELSE {[set |-> set \cup {x}, new |-> TRUE]}

\* HashSet<Host>::insert: the sets it can leave.  derive(Hash) for Host is
\* over the text, the address and the flag, eq over the text: a host of the
\* set with the text of h and another address or flag is found only if the
\* two hashes happen to meet.
HostInsert(set, h) ==
    IF h \in set THEN {set}
    ELSE IF \E y \in set : HostEq(y, h) THEN {set, set \cup {h}}
    ELSE {set \cup {h}}

-----------------------------------------------------------------------------
(* The inputs of the model *)

\* The masks given on the command line
SeedPlain == <<"a", "!", "i", "@", "h">>
SeedV4 == <<"a", "!", "i", "@", "1", ".", "2", ".", "3", ".", "4">>
SeedNoBang == <<"a", "i", "@", "h">>
SeedMasks == {SeedPlain, SeedV4, SeedNoBang}

\* The rows the sender table may hold: [id, sender]
RowSeed == [id |-> 1, sender |-> <<"a", "!", "i", "@", "h">>]
RowNickV4 == [id |-> 2, sender |-> <<"a", "b", "!", "j", "@", "1", ".", "2", ".", "3", ".", "4">>]
RowHostV4 == [id |-> 3, sender |-> <<"c", "!", "j", "@", "1", ".", "2", ".", "3", ".", "4">>]
RowChain == [id |-> 4, sender |-> <<"c", "d", "!", "k", "@", "g">>]
RowNoAt == [id |-> 5, sender |-> <<"a", "!", "i", "h">>]
RowNonAscii == [id |-> 6, sender |-> <<"U+00E9", "!", "i", "@", "h">>]
RowSeedAgain == [id |-> 7, sender |-> <<"a", "!", "i", "@", "h">>]
RowZone == [id |-> 8, sender |-> <<"a", "!", "k", "@", "f", "e", "8", "0", ":", "%", "e">>]
RowUniverse ==
    {RowSeed, RowNickV4, RowHostV4, RowChain, RowNoAt, RowNonAscii, RowSeedAgain,
     RowZone}

\* The values of --depth tried
DepthArgs == {1, 3}

\* The depth the loop runs with: let depth = 2
CodeDepth == 2

\* At most this many queries fail in one run
MaxFailures == 1

\* At most this many rows in the table
MaxRows == 2

-----------------------------------------------------------------------------
(* The state of run_worker *)

VARIABLES
    args,      \* Args: [mask, subnet, depth, ident]
    store,     \* the rows of the sender table
    decoded,   \* what Sender::try_from gives for each row the table may hold
    pc,        \* where run_worker is
    mask,      \* the parsed mask, with args.subnet on it
    depth,     \* the local depth
    i,         \* the loop's i
    nicks,     \* HashSet<Nick>
    idents,    \* HashSet<Ident>
    hosts,     \* HashSet<Host>
    panic,     \* where the task has panicked, "none" if it has not
    pending,   \* what the running stream has still to yield
    senders,   \* HashSet<Sender>
    res,       \* the senders found new in this iteration
    chan,      \* the oneshot channel to the terminal: [state, value]
    queries,   \* history: the calls of search in their order, each [iter, kind,
               \* value, addr, pattern, failed, rows, added]
    reported,  \* history: the senders an insert returned true for, as a bag
    ui,        \* run, the terminal: [state, res, shown], res being what
               \* try_recv has returned and shown its senders
    unit       \* one call of a function on its own: [pc, fn, arg, ret]

vars == <<args, store, decoded, pc, panic, mask, depth, i, nicks, idents, hosts, pending,
          senders, res, chan, queries, reported, ui, unit>>

RECURSIVE MapRows(_, _, _)
\* The closure mapped over one query's rows: each row is decoded (a row
\* that does not decode is dropped, a decode that panics ends the task),
\* takes the run's subnet flag on its MASK, and is inserted in senders; the
\* senders whose insert returned true are collected (news).  The outcomes
\* it can have, one for each order the database returns the rows in and
\* each outcome of the inserts.
MapRows(rows, subnet, acc) ==
    IF rows = {} \/ acc.panic THEN {acc}
    ELSE LET d(row) == decoded[row]
             sender(row) == [d(row).v EXCEPT !.sender.subnet = subnet]
             step(row) ==
                IF d(row).tag = "Panic" THEN {[acc EXCEPT !.panic = TRUE]}
                ELSE IF d(row).tag = "Err" THEN {acc}
                ELSE {[panic   |-> FALSE,
                       senders |-> ins.set,
                       news    |-> IF ins.new
                                   THEN acc.news (+) SetToBag({sender(row)})
                                   ELSE acc.news] :
                         ins \in SenderInsert(acc.senders, sender(row))}
         IN  UNION {UNION {MapRows(rows \ {row}, subnet, a) : a \in step(row)} :
                       row \in rows}

\* No function is called on its own in a run of the program
NoUnit == [pc |-> "none", fn |-> "none", arg |-> <<>>, ret |-> <<>>]

\* run has not returned, nor has it panicked.  (The task is on another
\* thread of the runtime: it goes on while run is there and after run has
\* returned, for as long as the process is there.)
Running == ui.state \in {"log", "received", "table"}

\* The mask before it is parsed: no HostMask
NoMask == [parsed |-> FALSE]

\* The command lines tried: --subnet or --ident or neither of them with a
\* --depth above the loop's own, and neither with a --depth below it
ArgsTried(masks) ==
    {a \in [mask : masks, subnet : BOOLEAN, depth : DepthArgs, ident : BOOLEAN] :
        /\ ~(a.subnet /\ a.ident)
        /\ a.depth < CodeDepth => (~a.subnet /\ ~a.ident)}

InitWith(masks, stores, d) ==
    /\ decoded = [row \in RowUniverse |-> SenderTryFrom(row)]
    /\ args \in ArgsTried(masks)
    /\ store \in stores
    /\ pc = "start"
    /\ panic = "none"
    /\ mask = NoMask
    /\ depth = d
    /\ i = 0
    /\ nicks = {}
    /\ idents = {}
    /\ hosts = {}
    /\ pending = {}
    /\ senders = {}
    /\ res = {}
    /\ chan = [state |-> "open", value |-> {}]
    /\ queries = <<>>
    /\ reported = EmptyBag
    /\ ui = [state |-> "log", res |-> {}, shown |-> {}]

\* The tables tried: up to MaxRows of the rows
Stores == {rows \in SUBSET RowUniverse : Cardinality(rows) <= MaxRows}

Init == InitWith(SeedMasks, Stores, CodeDepth) /\ unit = NoUnit

\* A panic of the task: it ends there, and its half of the channel is dropped
PanicStep(at) ==
    /\ pc' = "panicked"
    /\ panic' = at
    /\ chan' = [state |-> "closed", value |-> {}]

\* tokio_postgres::connect(..).await.unwrap(): the first step of the task; a
\* connection that fails panics it
Connect ==
    /\ UNCHANGED <<ui, unit>>
    /\ pc = "start"
    /\ \E connected \in BOOLEAN :
          IF connected THEN pc' = "connected" /\ UNCHANGED <<chan, panic>>
          ELSE PanicStep("connect")
    /\ UNCHANGED <<args, store, decoded, mask, depth, i, nicks, idents, hosts, pending,
                   senders, res, queries, reported>>

\* Parse without the unwrap: a mask that does not parse is taken for empty
ParseUnchecked ==
    /\ UNCHANGED <<ui, unit>>
    /\ pc = "connected"
    /\ LET m == FromStr(args.mask)
       IN  mask' = IF m.tag = "Ok" THEN [m.v EXCEPT !.subnet = args.subnet]
                   ELSE [nick |-> <<>>, ident |-> <<>>, host |-> <<<<>>, None, FALSE>>,
                         subnet |-> args.subnet]
    /\ nicks' = {mask'.nick}
    /\ idents' = IF args.ident THEN {mask'.ident} ELSE {}
    /\ hosts' = {mask'.host}
    /\ pc' = "loop"
    /\ UNCHANGED <<args, store, decoded, panic, depth, i, pending, senders, res, queries,
                   reported, chan>>

\* let mut mask = HostMask::from_str(&args.mask).unwrap();
\* mask.subnet = args.subnet; and the three frontiers are seeded
Parse ==
    /\ UNCHANGED <<ui, unit>>
    /\ pc = "connected"
    /\ LET m == FromStr(args.mask)
       IN  IF m.tag = "Ok"
           THEN /\ mask' = [m.v EXCEPT !.subnet = args.subnet]
                /\ nicks' = {mask'.nick}
                /\ idents' = IF args.ident THEN {mask'.ident} ELSE {}
                /\ hosts' = {mask'.host}
                /\ pc' = "loop"
                /\ UNCHANGED <<chan, panic>>
           ELSE /\ PanicStep("from_str")
                /\ UNCHANGED <<mask, nicks, idents, hosts>>
    /\ UNCHANGED <<args, store, decoded, depth, i, pending, senders, res, queries,
                   reported>>

AllEmpty == nicks = {} /\ idents = {} /\ hosts = {}

\* LoopHead without the break on empty frontiers
LoopHeadDepthOnly ==
    /\ UNCHANGED <<ui, unit>>
    /\ pc = "loop"
    /\ IF i >= depth
       THEN /\ pc' = "send"
            /\ UNCHANGED <<pending, res>>
       ELSE /\ pc' = "nicks"
            /\ pending' = nicks
            /\ res' = {}
    /\ UNCHANGED <<args, store, decoded, panic, mask, depth, i, nicks, idents, hosts, senders,
                   chan, queries, reported>>

\* for i in 0..depth { if all three are empty { break; } ...
LoopHead ==
    /\ UNCHANGED <<ui, unit>>
    /\ pc = "loop"
    /\ IF i >= depth \/ AllEmpty
       THEN /\ pc' = "send"
            /\ UNCHANGED <<pending, res>>
       ELSE /\ pc' = "nicks"
            /\ pending' = nicks
            /\ res' = {}
    /\ UNCHANGED <<args, store, decoded, panic, mask, depth, i, nicks, idents, hosts, senders,
                   chan, queries, reported>>

Failures == Cardinality({k \in 1..Len(queries) : queries[k].failed})

\* A search has been called and has not been answered
InFlight == queries # <<>> /\ ~queries[Len(queries)].answered

\* One value of a stream is taken and search is called with it: the query is
\* logged and sent, and the task waits in client.query(..).await
SearchCall(kind, q, text, addr, pattern) ==
    /\ ~InFlight
    /\ pending' = pending \ {q}
    /\ queries' = Append(queries,
                      [iter |-> i, kind |-> kind, value |-> text, addr |-> addr,
                       pattern |-> pattern, answered |-> FALSE, failed |-> FALSE,
                       rows |-> {}, added |-> {}])
    /\ UNCHANGED <<args, store, decoded, pc, panic, mask, depth, i, nicks, idents, hosts,
                   senders, res, chan, reported>>

QueryNick ==
    /\ UNCHANGED <<ui, unit>>
    /\ pc = "nicks"
    /\ \E q \in pending : SearchCall("nick", q, q, None, NickQuery(q))

QueryIdent ==
    /\ UNCHANGED <<ui, unit>>
    /\ pc = "idents"
    /\ \E q \in pending : SearchCall("ident", q, q, None, IdentQuery(q))

QueryHost ==
    /\ UNCHANGED <<ui, unit>>
    /\ pc = "hosts"
    /\ \E q \in pending : SearchCall("host", q, q[1], q[2], HostQuery(q))

\* The search called is answered, and the closure is run over its rows.  A
\* search that fails is filtered out.
SearchAnswer ==
    /\ InFlight
    /\ UNCHANGED <<ui, unit>>
    /\ \E fails \in BOOLEAN :
       /\ fails => Failures < MaxFailures
       /\ \E rows \in {IF fails THEN {} ELSE Search(store, queries[Len(queries)].pattern)} :
          \E out \in MapRows(rows, args.subnet,
                              [panic |-> FALSE, senders |-> senders, news |-> EmptyBag]) :
             /\ queries' = [queries EXCEPT ![Len(queries)] =
                              [@ EXCEPT
                                 !.answered = TRUE, !.failed = fails,
                                 !.rows = rows,
                                 !.added = IF out.panic THEN {}
                                           ELSE BagToSet(out.news)]]
             /\ IF out.panic
                THEN /\ PanicStep("row")
                     /\ UNCHANGED <<senders, res, reported>>
                ELSE /\ senders' = out.senders
                     /\ res' = res \cup BagToSet(out.news)
                     /\ reported' = reported (+) out.news
                     /\ UNCHANGED <<pc, chan, panic>>
    /\ UNCHANGED <<args, store, decoded, mask, depth, i, nicks, idents, hosts, pending>>

\* NicksDone without its test of args.ident: the ident stream always runs
NicksDoneAlwaysIdents ==
    /\ UNCHANGED <<ui, unit>>
    /\ pc = "nicks"
    /\ pending = {}
    /\ ~InFlight
    /\ pc' = "idents"
    /\ pending' = idents
    /\ UNCHANGED <<args, store, decoded, panic, mask, depth, i, nicks, idents, hosts, senders,
                   res, chan, queries, reported>>

\* The nick stream is exhausted: if args.ident the ident stream, else the
\* host stream
NicksDone ==
    /\ UNCHANGED <<ui, unit>>
    /\ pc = "nicks"
    /\ pending = {}
    /\ ~InFlight
    /\ IF args.ident
       THEN pc' = "idents" /\ pending' = idents
       ELSE pc' = "hosts" /\ pending' = hosts
    /\ UNCHANGED <<args, store, decoded, panic, mask, depth, i, nicks, idents, hosts, senders,
                   res, chan, queries, reported>>

IdentsDone ==
    /\ UNCHANGED <<ui, unit>>
    /\ pc = "idents"
    /\ pending = {}
    /\ ~InFlight
    /\ pc' = "hosts"
    /\ pending' = hosts
    /\ UNCHANGED <<args, store, decoded, panic, mask, depth, i, nicks, idents, hosts, senders,
                   res, chan, queries, reported>>

RECURSIVE HostsOf(_)
\* The hosts of a set of senders, inserted one by one in the order the
\* HashSet yields them, which is any: the sets that the inserts can leave
HostsOf(found) ==
    IF found = {} THEN {{}}
    ELSE UNION {UNION {HostInsert(set, x.sender.host) : set \in HostsOf(found \ {x})} :
                   x \in found}

\* Rebuild with the frontiers taken from the whole visited set
RebuildFromAll ==
    /\ UNCHANGED <<ui, unit>>
    /\ pc = "hosts"
    /\ pending = {}
    /\ ~InFlight
    /\ nicks' = {x.sender.nick : x \in senders}
    /\ idents' = {x.sender.ident : x \in senders}
    /\ hosts' \in HostsOf(senders)
    /\ i' = i + 1
    /\ pc' = "loop"
    /\ UNCHANGED <<args, store, decoded, panic, mask, depth, pending, senders, res, chan,
                   queries, reported>>

\* Rebuild with the idents taken only when they are followed
RebuildIdentsFollowed ==
    /\ UNCHANGED <<ui, unit>>
    /\ pc = "hosts"
    /\ pending = {}
    /\ ~InFlight
    /\ nicks' = {x.sender.nick : x \in res}
    /\ idents' = IF args.ident THEN {x.sender.ident : x \in res} ELSE {}
    /\ hosts' \in HostsOf(res)
    /\ i' = i + 1
    /\ pc' = "loop"
    /\ UNCHANGED <<args, store, decoded, panic, mask, depth, pending, senders, res, chan,
                   queries, reported>>

\* Rebuild without waiting for the host stream to be exhausted
RebuildEarly ==
    /\ UNCHANGED <<ui, unit>>
    /\ pc = "hosts"
    /\ ~InFlight
    /\ nicks' = {x.sender.nick : x \in res}
    /\ idents' = {x.sender.ident : x \in res}
    /\ hosts' \in HostsOf(res)
    /\ i' = i + 1
    /\ pc' = "loop"
    /\ UNCHANGED <<args, store, decoded, panic, mask, depth, pending, senders, res, chan,
                   queries, reported>>

\* The host stream is exhausted: the three frontiers are rebuilt from res,
\* and the iteration ends
Rebuild ==
    /\ UNCHANGED <<ui, unit>>
    /\ pc = "hosts"
    /\ pending = {}
    /\ ~InFlight
    /\ nicks' = {x.sender.nick : x \in res}
    /\ idents' = {x.sender.ident : x \in res}
    /\ hosts' \in HostsOf(res)
    /\ i' = i + 1
    /\ pc' = "loop"
    /\ UNCHANGED <<args, store, decoded, panic, mask, depth, pending, senders, res, chan,
                   queries, reported>>

\* rx is a parameter of run: it is dropped when run returns, on a q or on
\* an input/output error, or unwinds
ReceiverDropped == ~Running

\* A send of the senders found new in the last iteration only
SendNew ==
    /\ UNCHANGED <<ui, unit>>
    /\ pc = "send"
    /\ IF ReceiverDropped
       THEN UNCHANGED chan
       ELSE chan' = [state |-> "sent", value |-> res]
    /\ pc' = "done"
    /\ UNCHANGED <<args, store, decoded, panic, mask, depth, i, nicks, idents, hosts, pending,
                   senders, res, queries, reported>>

\* let _ = tx.send(senders); with the receiver dropped, send returns the
\* set in an Err that is let go, and nothing is in the channel
Send ==
    /\ UNCHANGED <<ui, unit>>
    /\ pc = "send"
    /\ IF ReceiverDropped
       THEN UNCHANGED chan
       ELSE chan' = [state |-> "sent", value |-> senders]
    /\ pc' = "done"
    /\ UNCHANGED <<args, store, decoded, panic, mask, depth, i, nicks, idents, hosts, pending,
                   senders, res, queries, reported>>

\* What the terminal leaves alone of the task and of its history
worker == <<args, store, decoded, pc, panic, mask, depth, i, nicks, idents, hosts, pending,
            senders, res, queries, reported, unit>>

\* if senders.is_none() { match rx.try_recv() { .. } }: the set sent is
\* taken out of the channel, and run goes to wait for an event with it in
\* hand; nothing sent yet, the loop goes round; the sending half dropped with
\* nothing sent, run panics
TryRecv ==
    /\ ui.state = "log"
    /\ IF chan.state = "sent"
       THEN /\ ui' = [ui EXCEPT !.state = "received", !.res = chan.value]
            /\ chan' = [state |-> "taken", value |-> {}]
       ELSE IF chan.state = "closed"
       THEN ui' = [ui EXCEPT !.state = "panicked"] /\ UNCHANGED chan
       ELSE UNCHANGED <<ui, chan>>
    /\ UNCHANGED worker

\* let _ = event::read()?; senders = Some(res); any event ends the wait, a
\* q as any other, and the table is drawn from then on
ReadAnyKey ==
    /\ ui.state = "received"
    /\ ui' = [state |-> "table", res |-> {}, shown |-> ui.res]
    /\ UNCHANGED <<worker, chan>>

\* terminal.draw(..)?, poll(..)?, event::read()?: an input/output error makes
\* run return it, with what it holds dropped
IoError ==
    /\ Running
    /\ ui' = [ui EXCEPT !.state = "error"]
    /\ UNCHANGED <<worker, chan>>

\* KeyCode::Char('q') => return Ok(()): run returns; main restores the
\* terminal and returns, and the runtime is dropped with it: the task takes
\* the steps it has the time for until then.  (Up and Down move the
\* selection only.)
Quit ==
    /\ ui.state \in {"log", "table"}
    /\ ui' = [ui EXCEPT !.state = "quit"]
    /\ UNCHANGED <<worker, chan>>

Next ==
    \/ Connect
    \/ Parse
    \/ LoopHead
    \/ QueryNick
    \/ NicksDone
    \/ QueryIdent
    \/ IdentsDone
    \/ QueryHost
    \/ SearchAnswer
    \/ Rebuild
    \/ Send
    \/ TryRecv
    \/ ReadAnyKey
    \/ IoError
    \/ Quit

Spec == Init /\ [][Next]_vars

\* The parser on every text of up to MaxLen characters of ParseAlphabet, as
\* the mask of a run over an empty table
ParseAlphabet == {"a", "!", "@", "U+00E9"}

MaxLen == 5

Texts == UNION {[1..n -> ParseAlphabet] : n \in 0..MaxLen}

InitParse ==
    InitWith(Texts, {{}}, CodeDepth) /\ args.depth = 3 /\ ~args.subnet /\ unit = NoUnit

SpecParse == InitParse /\ [][Next]_vars

-----------------------------------------------------------------------------
(* The functions on their own: one call of one of them, as the tests of    *)
(* hostmask.rs make them                                                   *)

\* A call to make: fn on arg
Call(fn, arg) == [pc |-> "call", fn |-> fn, arg |-> arg, ret |-> <<>>]

\* The run that is not there while a function is called on its own
NoRun ==
    /\ InitWith({SeedPlain}, {{}}, CodeDepth)
    /\ args.depth = 3 /\ ~args.subnet /\ ~args.ident

\* What a call leaves alone: all but unit
run == <<args, store, decoded, pc, panic, mask, depth, i, nicks, idents, hosts, pending,
         senders, res, chan, queries, reported, ui>>

\* HostMask::from_str(arg)
CallFromStr ==
    /\ unit.pc = "call"
    /\ unit.fn = "HostMask::from_str"
    /\ unit' = [unit EXCEPT !.pc = "returned", !.ret = FromStr(unit.arg)]
    /\ UNCHANGED run

\* The nicks and idents queried on their own
ShortTexts == {t \in Texts : Len(t) <= 2}

\* The hosts queried on their own, written out as the tests write them:
\* Host(text, address, flag)
RawIp == <<"6", "6", ".", "2", "0", "5", ".", "1", "9", "2", ".", "5", "1">>
AddrRawIp == <<"V4", <<66, 205, 192, 51>>>>
AddrLoopback == <<"V6", <<0, 0, 0, 0, 0, 0, 0, 1>>>>
HostValues ==
    {<<t, a, f>> : t \in {RawIp, <<"h">>, <<>>},
                   a \in {None, AddrRawIp, <<"V4", <<0, 10, 100, 255>>>>, AddrLoopback},
                   f \in BOOLEAN}

\* Nick::query
CallNickQuery ==
    /\ unit.pc = "call"
    /\ unit.fn = "Nick::query"
    /\ unit' = [unit EXCEPT !.pc = "returned", !.ret = NickQuery(unit.arg)]
    /\ UNCHANGED run

\* Ident::query
CallIdentQuery ==
    /\ unit.pc = "call"
    /\ unit.fn = "Ident::query"
    /\ unit' = [unit EXCEPT !.pc = "returned", !.ret = IdentQuery(unit.arg)]
    /\ UNCHANGED run

\* Host::query
CallHostQuery ==
    /\ unit.pc = "call"
    /\ unit.fn = "Host::query"
    /\ unit' = [unit EXCEPT !.pc = "returned", !.ret = HostQuery(unit.arg)]
    /\ UNCHANGED run

\* The texts classified on their own: those of test_parse_host, and others
DottedMask == <<"1", "8", "8", ".", "1", "4", "7", ".", "1", "0", "0", ".", "2", "4", "0", ".", "n", "a", "t", ".", "u", "m", "t", "s", ".", "d", "y", "n", "a", "m", "i", "c", ".", "t", "-", "m", "o", "b", "i", "l", "e", ".", "p", "l">>
DashedMask == <<"s", "t", "a", "t", "i", "c", "-", "i", "p", "-", "8", "7", "-", "2", "4", "8", "-", "6", "7", "-", "1", "3", "3", ".", "p", "r", "o", "m", "a", "x", ".", "m", "e", "d", "i", "a", ".", "p", "l">>
NoIp == <<"u", "s", "e", "r", "/", "k", "k", "s">>
HostTexts ==
    {RawIp, DottedMask, DashedMask, NoIp,
     <<"f", "e", "8", "0", ":", "%", "e">>, <<":", ":", "1">>, <<"i", "p", "-", "8", "7", "-", "2", "4", "8", "-", "6", "7", "-", "1", "3", "3", "-", "x", ".", "p", "l">>, <<"1", ".", "2", ".", "3", ".", "4", "-">>,
     <<"1", ".", "2", ".", "3">>, <<"1", ".", "2", ".", "3", ".", "4", "0", "0">>, <<"h">>, <<>>}

\* Host::from(arg)
CallHostFrom ==
    /\ unit.pc = "call"
    /\ unit.fn = "Host::from"
    /\ unit' = [unit EXCEPT !.pc = "returned", !.ret = HostFrom(unit.arg)]
    /\ UNCHANGED run

\* The texts of test_parse_host
TestTexts == {RawIp, DottedMask, DashedMask, NoIp}

\* One block of test_parse_host: let raw_host = Host::from(arg), and the
\* raw_host.query() that the block compares
CallTestParseHost ==
    /\ unit.pc = "call"
    /\ unit.fn = "test_parse_host"
    /\ LET raw_host == HostFrom(unit.arg)
       IN  unit' = [unit EXCEPT
                      !.pc = "returned",
                      !.ret = IF raw_host.tag = "Ok"
                              THEN Ok([host |-> raw_host.v,
                                       query |-> HostQuery(raw_host.v)])
                              ELSE raw_host]
    /\ UNCHANGED run

InitUnit ==
    /\ NoRun
    /\ \/ unit \in {Call("HostMask::from_str", t) : t \in Texts}
       \/ unit \in {Call("Nick::query", t) : t \in ShortTexts}
       \/ unit \in {Call("Ident::query", t) : t \in ShortTexts}
       \/ unit \in {Call("Host::query", h) : h \in HostValues}
       \/ unit \in {Call("Host::from", t) : t \in HostTexts}
       \/ unit \in {Call("test_parse_host", t) : t \in TestTexts}

NextUnit ==
    \/ CallFromStr
    \/ CallNickQuery
    \/ CallIdentQuery
    \/ CallHostQuery
    \/ CallHostFrom
    \/ CallTestParseHost

SpecUnit == InitUnit /\ [][NextUnit]_vars

-----------------------------------------------------------------------------
(* The depth of the traversal *)

\* C1: search is called in at most args.depth iterations: no call of it is
\* made in an iteration numbered args.depth or more (the first is numbered 0)
C1_DepthBound ==
    \A k \in 1..Len(queries) : queries[k].iter < args.depth

-----------------------------------------------------------------------------
(* The subnet flag *)

\* The pattern the flag asks of a host holding an IPv4 address: its first 3
\* octets if it is on, all 4 if it is off
SubnetFingerprint(octets, subnet) ==
    <<"%">> \o Join([k \in 1..(IF subnet THEN 3 ELSE 4) |-> U8ToString(octets[k])], <<"_">>)
            \o <<"%">>

\* C2: every search for a host holding an IPv4 address is made with the
\* pattern the run's subnet flag asks for: 3 octets with it on, 4 with it off
C2_SubnetFlagControls ==
    \A k \in 1..Len(queries) :
        (queries[k].kind = "host" /\ queries[k].addr[1] = "V4")
            => queries[k].pattern = SubnetFingerprint(queries[k].addr[2], args.subnet)

-----------------------------------------------------------------------------
(* Ident-following *)

\* The rows of the table a sender of the visited set was decoded from
RowsOf(x) ==
    {row \in store : row.id = x.id /\ decoded[row].tag = "Ok"}

\* C3 as the specification words it: with ident-following off the ident
\* frontier is empty in every iteration
C3_IdentFrontierAlwaysEmpty ==
    ~args.ident => idents = {}

\* C3: with ident-following off no search for an ident is ever called and the
\* ident stream never runs; the ident frontier is empty through the first
\* iteration, and from then on it holds the idents of the senders the
\* iteration before found new, unqueried; every sender of the visited set
\* keeps the ident of the row it was decoded from
C3_IdentNeverQueried ==
    ~args.ident =>
        /\ \A k \in 1..Len(queries) : queries[k].kind # "ident"
        /\ pc # "idents"
        /\ i = 0 => idents = {}
        /\ (pc = "loop" /\ i >= 1) => idents = {x.sender.ident : x \in res}
        /\ \A x \in senders :
              \E row \in RowsOf(x) : decoded[row].v.sender.ident = x.sender.ident

\* Ident-following is off, the second iteration has reached its host stream
\* with an ident frontier that is not empty, and a sender with an ident other
\* than the seed's is in the visited set
C3_RepopulatedUnqueried ==
    /\ ~args.ident
    /\ pc = "hosts"
    /\ i = 1
    /\ idents # {}
    /\ \E x \in senders : x.sender.ident # mask.ident

-----------------------------------------------------------------------------
(* The visited set *)

\* The senders of the visited set equal to x
EqualsIn(set, x) == {y \in set : SenderEq(y, x)}

\* C4: the visited set holds no two equal senders; a sender an insert has
\* reported new is in the set, is reported new once in the whole run however
\* many searches return its row, and the set's size is the number of inserts
\* that reported new; every sender of the set is what one row of the table
\* decodes to, with the run's subnet flag on it
C4_InsertedOnce ==
    /\ \A x \in senders : EqualsIn(senders, x) = {x}
    /\ BagToSet(reported) = senders
    /\ \A x \in BagToSet(reported) : CopiesIn(x, reported) = 1
    /\ Cardinality(senders) = BagCardinality(reported)
    /\ \A x \in senders :
          \E row \in RowsOf(x) :
              x = [decoded[row].v EXCEPT !.sender.subnet = args.subnet]
    /\ \A k \in 1..Len(queries) : queries[k].added \subseteq senders

\* The row of one sender of the visited set was returned by a nick search and
\* a host search of the first iteration and again by a search of the second
C4_ReturnedAgain ==
    \E x \in senders : \E a, b, c \in 1..Len(queries) :
        /\ queries[a].iter = 0 /\ queries[a].kind = "nick"
        /\ queries[b].iter = 0 /\ queries[b].kind = "host"
        /\ queries[c].iter = 1
        /\ \A k \in {a, b, c} : \E row \in queries[k].rows : row.id = x.id
        /\ queries[a].added = {x}
        /\ queries[b].added = {}
        /\ queries[c].added = {}

-----------------------------------------------------------------------------
(* The frontiers *)

\* The senders the searches of iteration n inserted new
NewIn(n) ==
    UNION {queries[k].added : k \in {j \in 1..Len(queries) : queries[j].iter = n}}

\* The values of one kind searched for before iteration n
QueriedBefore(kind, n) ==
    {queries[k].value : k \in {j \in 1..Len(queries) :
                                  queries[j].kind = kind /\ queries[j].iter < n}}

\* C5 as the specification words it: no frontier holds a value that was
\* searched for in an earlier iteration
C5_NeverQueriedBefore ==
    /\ nicks \cap QueriedBefore("nick", i) = {}
    /\ idents \cap QueriedBefore("ident", i) = {}
    /\ {h[1] : h \in hosts} \cap QueriedBefore("host", i) = {}

\* C5: from the second iteration on, every value of a frontier is a part of a
\* sender that a search of the iteration before inserted new in the visited
\* set, and that no earlier iteration had inserted; whether the value was
\* searched for before is not looked at
C5_FrontierFromNew ==
    i >= 1 =>
        LET new == NewIn(i - 1)
        IN  /\ \A v \in nicks : \E x \in new : x.sender.nick = v
            /\ \A v \in idents : \E x \in new : x.sender.ident = v
            /\ \A h \in hosts : \E x \in new : HostEq(x.sender.host, h)
            /\ \A n \in 0..(i - 2) : NewIn(n) \cap new = {}

\* The seed's nick is searched for in the first iteration, a sender found new
\* there carries it, and it is searched for again in the second
C5_SearchedAgain ==
    \E a, b \in 1..Len(queries) :
        /\ queries[a].kind = "nick" /\ queries[a].iter = 0
        /\ queries[b].kind = "nick" /\ queries[b].iter = 1
        /\ queries[a].value = queries[b].value
        /\ \E x \in NewIn(0) : x.sender.nick = queries[b].value

-----------------------------------------------------------------------------
(* Termination *)

\* The loop has been left, or the task has ended
Stopped == pc \in {"send", "done", "panicked"}

\* C6: whatever the depth, the loop comes to the state where all three
\* frontiers are empty: it is left before the depth is reached, or the task
\* ends, only with all three empty, after at most one iteration more than
\* there are senders in the visited set
C6_ReachesEmptyFrontiers ==
    (Stopped /\ i < depth) => (AllEmpty /\ i <= Cardinality(senders) + 1)


\* The seed has been parsed
Seeded == "nick" \in DOMAIN mask

\* No search so far has returned a row
NoRows == \A k \in 1..Len(queries) : queries[k].rows = {}

\* The searches of a first iteration: one for each value the seed gives
SeedQueries ==
    {<<"nick", mask.nick>>, <<"host", mask.host[1]>>}
        \cup (IF args.ident THEN {<<"ident", mask.ident>>} ELSE {})

\* C7: as long as no search returns a row, the visited set stays empty, the
\* task does not end in a panic, and search is called in the first iteration
\* only, once for each value of the seed; after it all three frontiers are
\* empty, the loop is left there, and the set sent is empty: it is in the
\* channel or with the terminal, unless run had returned before the send,
\* and then nothing is sent.  In any run a sender is in the visited set only
\* if a search returned its row.
C7_NoMatchOneIteration ==
    /\ (Seeded /\ NoRows) =>
          /\ pc # "panicked"
          /\ senders = {}
          /\ i <= 1
          /\ \A k \in 1..Len(queries) :
                queries[k].iter = 0
                    /\ <<queries[k].kind, queries[k].value>> \in SeedQueries
          /\ \A a, b \in 1..Len(queries) :
                (queries[a].kind = queries[b].kind
                    /\ queries[a].value = queries[b].value) => a = b
          /\ i = 1 =>
                (AllEmpty /\ Len(queries) = Cardinality(SeedQueries))
          /\ pc \in {"send", "done"} => i = 1
          /\ pc = "done" =>
                /\ \/ chan.state \in {"sent", "taken"}
                   \/ chan.state = "open" /\ ReceiverDropped
                /\ chan.value = {} /\ ui.res = {} /\ ui.shown = {}
    /\ \A x \in senders :
          \E k \in 1..Len(queries) : \E row \in queries[k].rows : row.id = x.id

\* A run over a table that holds rows, none of which any search of the seed
\* matches, has sent its set: no search failed, and none returned a row
C7_NothingFound ==
    /\ Seeded
    /\ NoRows
    /\ store # {}
    /\ pc = "done"
    /\ Len(queries) >= 2
    /\ \A k \in 1..Len(queries) : ~queries[k].failed

-----------------------------------------------------------------------------
(* Failures *)

\* The values of one kind searched for in iteration n
QueriedIn(kind, n) ==
    {queries[k].value : k \in {j \in 1..Len(queries) :
                                  queries[j].kind = kind /\ queries[j].iter = n}}

\* C8: a search that fails inserts nothing and is passed over: in a run with
\* a failed search the task does not end in a panic, every value of the
\* iteration's frontiers has been searched for when the iteration ends, and
\* a run that ends has sent the visited set: it is in the channel or with
\* the terminal, unless run had returned before the send
C8_FailureAbsorbed ==
    /\ \A k \in 1..Len(queries) : queries[k].failed => queries[k].added = {}
    /\ (\E k \in 1..Len(queries) : queries[k].failed) =>
          /\ pc # "panicked"
          /\ (pc = "hosts" /\ pending = {}) =>
                /\ nicks \subseteq QueriedIn("nick", i)
                /\ args.ident => idents \subseteq QueriedIn("ident", i)
                /\ {h[1] : h \in hosts} \subseteq QueriedIn("host", i)
          /\ pc = "done" =>
                \/ chan = [state |-> "sent", value |-> senders]
                \/ chan.state = "taken" /\ senders \in {ui.res, ui.shown}
                \/ chan.state = "open" /\ ReceiverDropped

\* C9: a row whose text does not decode is dropped and nothing else happens:
\* once the seed is parsed the task never ends in a panic, and what a search
\* inserts is decoded from the rows it returned
C9_BadRowsDropped ==
    /\ Seeded => pc # "panicked"
    /\ \A k \in 1..Len(queries) : \A x \in queries[k].added :
          \E row \in queries[k].rows : row.id = x.id /\ decoded[row].tag = "Ok"

-----------------------------------------------------------------------------
(* The parser *)

\* The text has one '!' and one '@', the '!' first: N!I@H with no '!' or '@'
\* in N, I or H
WellFormed(s) ==
    /\ Cardinality({k \in 1..Len(s) : s[k] = "!"}) = 1
    /\ Cardinality({k \in 1..Len(s) : s[k] = "@"}) = 1
    /\ \A a, b \in 1..Len(s) : (s[a] = "!" /\ s[b] = "@") => a < b

\* The index of the one c of a well-formed text
IndexOf(s, c) == CHOOSE k \in 1..Len(s) : s[k] = c

\* C10: a mask N!I@H, with no '!' or '@' in N, I or H, any of which may be
\* empty, parses, and to the nick N, the ident I and the host H
C10_PositionExact ==
    (pc \notin {"start", "connected"} /\ panic # "connect" /\ WellFormed(args.mask)) =>
        LET s == args.mask
            b == IndexOf(s, "!")
            a == IndexOf(s, "@")
        IN  /\ pc # "panicked"
            /\ mask.nick = SubSeq(s, 1, b - 1)
            /\ mask.ident = SubSeq(s, b + 1, a - 1)
            /\ mask.host[1] = SubSeq(s, a + 1, Len(s))

-----------------------------------------------------------------------------
(* The errors of the parser *)

\* The places of c in s
Places(s, c) == {k \in 1..Len(s) : s[k] = c}

\* The least of a set of numbers that is not empty
Least(S) == CHOOSE k \in S : \A j \in S : k <= j

\* C11: HostMask::from_str of a text without '!' is Err(MissingIdent),
\* whether or not the text has an '@'; of a text with a '!' and no '@' after
\* the first '!' it is Err(MissingHost); an Err holds no mask
C11_MissingDelimiters ==
    (unit.fn = "HostMask::from_str" /\ unit.pc = "returned") =>
        LET s    == unit.arg
            bang == Places(s, "!")
        IN  /\ bang = {} => unit.ret = Err("MissingIdent")
            /\ (bang # {} /\ \A k \in Places(s, "@") : k < Least(bang))
                  => unit.ret = Err("MissingHost")
            /\ unit.ret.tag = "Err" => DOMAIN unit.ret = {"tag", "err"}

\* from_str has returned MissingIdent for a text with an '@' and no '!', or
\* MissingHost for a text whose only '@' comes before its '!'
C11_ErrReturned ==
    /\ unit.fn = "HostMask::from_str"
    /\ unit.pc = "returned"
    /\ Places(unit.arg, "@") # {}
    /\ \/ Places(unit.arg, "!") = {} /\ unit.ret = Err("MissingIdent")
       \/ /\ Places(unit.arg, "!") # {}
          /\ \A k \in Places(unit.arg, "@") : k < Least(Places(unit.arg, "!"))
          /\ unit.ret = Err("MissingHost")


\* The text lacks its '!', or has no '@' after its first '!'
Malformed(s) ==
    \/ Places(s, "!") = {}
    \/ \A k \in Places(s, "@") : k < Least(Places(s, "!"))

\* C12: with a mask that lacks its '!' or its '@' the task ends where it
\* parses the mask: search is never called, no frontier is seeded, nothing is
\* inserted or sent, the sending half of the channel is dropped, and the
\* terminal never shows a set
C12_MalformedFatal ==
    Malformed(args.mask) =>
        /\ pc \in {"start", "connected", "panicked"}
        /\ queries = <<>>
        /\ AllEmpty
        /\ senders = {}
        /\ chan.state = (IF pc = "panicked" THEN "closed" ELSE "open")
        /\ ui.state \notin {"received", "table"}
        /\ ui.res = {}
        /\ ui.shown = {}

\* The task has panicked on a mask without '!' or '@', and the terminal, which
\* found the channel closed, has panicked in its turn
C12_HaltedAtStartup ==
    /\ Malformed(args.mask)
    /\ pc = "panicked"
    /\ panic = "from_str"
    /\ ui.state = "panicked"

-----------------------------------------------------------------------------
(* The fingerprints *)

\* A call of fn has returned
Returned(fn) == unit.fn = fn /\ unit.pc = "returned"

\* C13: the fingerprint of a nick n is n%, of an ident i %i%, of a host
\* without an address or with an IPv6 one % and its text, and of a host with
\* the IPv4 address a.b.c.d %a_b_c_d% if the host's flag is off and %a_b_c% if
\* it is on, whatever the host's text: 66.205.192.51 gives %66_205_192_51%
\* off and %66_205_192% on
C13_Fingerprints ==
    /\ Returned("Nick::query") => unit.ret = unit.arg \o <<"%">>
    /\ Returned("Ident::query") => unit.ret = <<"%">> \o unit.arg \o <<"%">>
    /\ Returned("Host::query") =>
          /\ unit.arg[2][1] # "V4" => unit.ret = <<"%">> \o unit.arg[1]
          /\ unit.arg[2][1] = "V4" =>
                unit.ret = SubnetFingerprint(unit.arg[2][2], unit.arg[3])
          /\ unit.arg[2] = AddrRawIp =>
                unit.ret = (IF unit.arg[3]
                            THEN <<"%", "6", "6", "_", "2", "0", "5", "_", "1", "9", "2", "%">>
                            ELSE <<"%", "6", "6", "_", "2", "0", "5", "_", "1", "9", "2", "_", "5", "1", "%">>)

\* The host 66.205.192.51 with its flag on has been queried: %66_205_192%
C13_SubnetOnQueried ==
    /\ Returned("Host::query")
    /\ unit.arg = <<RawIp, AddrRawIp, TRUE>>
    /\ unit.ret = <<"%", "6", "6", "_", "2", "0", "5", "_", "1", "9", "2", "%">>

-----------------------------------------------------------------------------
(* The classification of hosts *)

\* C14: Host::from returns, for every text, a host of that text with an
\* address or with none: it never fails
C14_ClassificationTotal ==
    Returned("Host::from") =>
        /\ unit.ret.tag = "Ok"
        /\ unit.ret.v[1] = unit.arg
        /\ unit.ret.v[2][1] \in {"None", "V4", "V6"}

-----------------------------------------------------------------------------
(* The equality of hosts *)

\* The hosts of the run: those of the frontier and of the visited set
HostsSeen == hosts \cup {x.sender.host : x \in senders}

\* The hosts of the texts of S, with any address and any flag
Variants(S) ==
    UNION {{<<h[1], a, f>> : a \in {h[2], None, AddrRawIp}, f \in BOOLEAN} :
              h \in S}

\* C15: a host of the run equals a host of any address and flag if and only
\* if their texts are the same; the host frontier never holds two hosts of
\* one text, and no text is searched for twice as a host in one iteration
C15_HostEqualityByText ==
    /\ LET seen == HostsSeen
           variants == Variants(seen)
       IN  \A a \in seen : \A b \in variants : HostEq(a, b) <=> a[1] = b[1]
    /\ \A a, b \in hosts : a[1] = b[1] => a = b
    /\ \A j, k \in 1..Len(queries) :
          (queries[j].kind = "host" /\ queries[k].kind = "host"
              /\ queries[j].iter = queries[k].iter
              /\ queries[j].value = queries[k].value) => j = k

\* Two senders found new in the first iteration have the same host text; the
\* frontier of the second holds that text once, and it has been searched for
C15_SharedHostOnce ==
    /\ i = 1
    /\ \E x, y \in NewIn(0) :
          /\ x # y
          /\ x.sender.host[1] = y.sender.host[1]
          /\ Cardinality({h \in hosts : h[1] = x.sender.host[1]}) = 1
          /\ \E k \in 1..Len(queries) :
                queries[k].kind = "host" /\ queries[k].iter = 1
                    /\ queries[k].value = x.sender.host[1]

-----------------------------------------------------------------------------
(* The result set and the terminal *)

\* What holds in every state of the hand-over
HandedOver ==
    /\ chan.state = "sent" =>
          /\ pc = "done"
          /\ i >= depth \/ AllEmpty
          /\ chan.value = senders
    /\ chan.state = "taken" => (pc = "done" /\ ui.state # "log")
    /\ (pc = "done" /\ chan.state = "open") =>
          (ui.state \in {"quit", "error"} /\ ui.res = {} /\ ui.shown = {})
    /\ (pc = "done" /\ Running) => chan.state \in {"sent", "taken"}
    /\ ui.state = "log" => (ui.res = {} /\ ui.shown = {})
    /\ ui.state = "received" =>
          (chan.state = "taken" /\ ui.res = senders /\ ui.shown = {})
    /\ ui.state = "table" => (chan.state = "taken" /\ ui.shown = senders)

\* C16: the visited set is sent only once the loop has been left (by the
\* depth or with all frontiers empty), it is sent once and never changed
\* after, and it is in the channel whenever run is still there at the send;
\* a send after run has returned leaves nothing in the channel and reaches
\* no one; the terminal takes the set from the channel once, shows nothing
\* of it before it has taken it, and the set it shows, once it shows one,
\* is what the loop left and stays the same
C16_ResultHandedOnce ==
    /\ []HandedOver
    /\ [][chan.state \in {"sent", "taken"} =>
            /\ senders' = senders
            /\ chan' = chan \/ (chan.state = "sent" /\ chan'.state = "taken")]_vars
    /\ [][chan'.state = "sent" /\ chan.state # "sent" =>
            (pc = "send" /\ chan.state = "open" /\ Running /\ chan'.value = senders)]_vars
    /\ [][(pc = "send" /\ pc' = "done" /\ ReceiverDropped) => chan' = chan]_vars
    /\ [][ui'.res # ui.res =>
            \/ ui.state = "log" /\ chan.state = "sent" /\ ui'.res = chan.value
            \/ ui.state = "received" /\ ui'.shown = ui.res]_vars
    /\ [][ui'.shown # ui.shown => (ui.state = "received" /\ ui'.state = "table"
                                      /\ ui'.shown = senders)]_vars
    /\ [][ui.state = "table" => ui'.shown = ui.shown]_vars

\* The terminal shows a visited set of two senders or more
C16_TableShown ==
    /\ ui.state = "table"
    /\ ui.shown = senders
    /\ Cardinality(senders) >= 2

-----------------------------------------------------------------------------
(* Iterations as barriers *)

\* The values of one kind that iteration n has to search for: the seed's in
\* the first, those of the senders found new in the one before in the others
FrontierOf(kind, n) ==
    LET of(s) == CASE kind = "nick" -> s.nick
                   [] kind = "ident" -> s.ident
                   [] kind = "host" -> s.host[1]
    IN  IF n = 0 THEN {of(mask)} ELSE {of(x.sender) : x \in NewIn(n - 1)}

\* C17: when the frontiers of an iteration are there, every value of every
\* iteration before has been searched for (idents when they are followed)
\* and every search of it has been answered or has failed,
\* the searches of an iteration all come before those of the next, and the
\* three frontiers are exactly the nicks, idents and hosts of the senders
\* the iteration before inserted new
C17_BarrierThenNew ==
    /\ \A n \in 0..(i - 1) :
          /\ FrontierOf("nick", n) \subseteq QueriedIn("nick", n)
          /\ args.ident => FrontierOf("ident", n) \subseteq QueriedIn("ident", n)
          /\ FrontierOf("host", n) \subseteq QueriedIn("host", n)
    /\ \A k \in 1..(Len(queries) - 1) : queries[k].iter <= queries[k + 1].iter
    /\ \A k \in 1..Len(queries) :
          queries[k].iter <= i /\ (queries[k].iter < i => queries[k].answered)
    /\ i >= 1 =>
          /\ nicks = FrontierOf("nick", i)
          /\ idents = FrontierOf("ident", i)
          /\ {h[1] : h \in hosts} = FrontierOf("host", i)

\* An iteration has found a sender new and has been returned one that was in
\* the visited set before it; the next frontier has the nick of the first
\* and not that of the second
C17_OldContributesNothing ==
    /\ i >= 1
    /\ pc = "loop"
    /\ NewIn(i - 1) # {}
    /\ \E k \in 1..Len(queries) : \E row \in queries[k].rows :
          /\ queries[k].iter = i - 1
          /\ decoded[row].tag = "Ok"
          /\ decoded[row].v \in senders \ NewIn(i - 1)
          /\ decoded[row].v.sender.nick \notin nicks

-----------------------------------------------------------------------------
(* The id in the key of the visited set *)

\* The rows that the searches gone through so far have returned and that
\* decode (the search a panic ended has not gone through)
RowsDecoded ==
    {row \in UNION {queries[k].rows :
                       k \in {j \in 1..Len(queries) :
                                 ~(pc = "panicked" /\ j = Len(queries))}} :
        decoded[row].tag = "Ok"}

\* C18: every row returned that decodes is in the visited set under its own
\* id, whatever masks the set holds already: two rows of one mask and two
\* ids are two senders of the set, its size is the number of such rows, and
\* a sender found new in an iteration has its nick, ident and host in the
\* frontiers the iteration leaves
C18_IdInKey ==
    /\ \A row \in RowsDecoded :
          \E x \in senders : x.id = row.id /\ x.sender.nick = decoded[row].v.sender.nick
              /\ x.sender.ident = decoded[row].v.sender.ident
              /\ x.sender.host = decoded[row].v.sender.host
    /\ \A x, y \in senders : SenderEq(x, y) => x.id = y.id
    /\ Cardinality(senders) = Cardinality(RowsDecoded)
    /\ \A x \in senders : \E n \in 0..i : x \in NewIn(n)
    /\ i >= 1 =>
          \A x \in NewIn(i - 1) :
              /\ x.sender.nick \in nicks
              /\ x.sender.ident \in idents
              /\ \E h \in hosts : h[1] = x.sender.host[1]

\* One iteration has inserted two senders of the same mask under two ids,
\* and their nick is in the frontier it has left
C18_SameMaskTwoIds ==
    /\ i >= 1
    /\ \E x, y \in NewIn(i - 1) :
          /\ x.id # y.id
          /\ x.sender = y.sender
          /\ {x, y} \subseteq senders
          /\ x.sender.nick \in nicks

-----------------------------------------------------------------------------
(* The IPv4 address in a host text *)

Separator == {".", "-"}

\* The number of digits that s has from p on
DigitsAt(s, p) ==
    CHOOSE l \in 0..(Len(s) - p + 1) :
        /\ \A k \in p..(p + l - 1) : s[k] \in Digit
        /\ p + l > Len(s) \/ s[p + l] \notin Digit

RECURSIVE RunFrom(_, _, _)
\* The values of n groups of digits from p on, each from 0 to 255, with one
\* separator between two of them and the last one ending at the end of the
\* text or before a character that is no letter and no digit; <<>> if s
\* has no such groups at p
RunFrom(s, p, n) ==
    LET l == DigitsAt(s, p)
        g == SubSeq(s, p, p + l - 1)
        q == p + l
    IN  IF ~IsOctet(g) THEN <<>>
        ELSE IF n = 1
        THEN IF q > Len(s) \/ ~IsWord(s[q]) THEN <<NumValue(g, 10)>> ELSE <<>>
        ELSE IF q <= Len(s) /\ s[q] \in Separator
        THEN LET r == RunFrom(s, q + 1, n - 1)
             IN  IF r = <<>> THEN <<>> ELSE <<NumValue(g, 10)>> \o r
        ELSE <<>>

\* Where s has a run of four groups
RunStarts(s) ==
    {p \in 1..Len(s) : (p = 1 \/ s[p - 1] \notin Digit) /\ RunFrom(s, p, 4) # <<>>}

\* The leftmost run of four groups of s, <<>> if it has none
OctetRun(s) ==
    IF RunStarts(s) = {} THEN <<>> ELSE RunFrom(s, Least(RunStarts(s)), 4)

\* C19: for every host text with a run of four groups from 0 to 255 that
\* dots or dashes separate, whatever follows the fourth, Host::from returns
\* the host with the IPv4 address of these four
C19_Ipv4Detected ==
    (Returned("Host::from") /\ OctetRun(unit.arg) # <<>>) =>
        /\ unit.ret.tag = "Ok"
        /\ unit.ret.v[2] = <<"V4", OctetRun(unit.arg)>>

-----------------------------------------------------------------------------
(* test_parse_host *)

\* C20: the host that Host::from makes of a text, with nothing set on it,
\* has the fingerprint %a_b_c% of the first three octets if the text holds
\* the IPv4 address a.b.c.d (alone, before a dotted suffix, or with dashes),
\* and the fingerprint % and its text if it holds no address
C20_TestFingerprints ==
    Returned("test_parse_host") =>
        /\ unit.ret.tag = "Ok"
        /\ unit.ret.v.host[1] = unit.arg
        /\ unit.ret.v.query =
              IF OctetRun(unit.arg) # <<>>
              THEN SubnetFingerprint(OctetRun(unit.arg), TRUE)
              ELSE <<"%">> \o unit.arg

-----------------------------------------------------------------------------
(* The frontiers at the head of the loop *)

AllNonEmpty == nicks # {} /\ idents # {} /\ hosts # {}

\* C21: at the head of the loop, after the first iteration, the three
\* frontiers are all empty or all non-empty, and all empty exactly when the
\* iteration before inserted no sender new; the loop is left before the
\* depth is reached exactly after an iteration that inserted none, and no
\* search is made in an iteration that follows one that inserted none
C21_FrontiersTogether ==
    /\ (pc = "loop" /\ i >= 1) =>
          /\ AllEmpty \/ AllNonEmpty
          /\ AllEmpty <=> NewIn(i - 1) = {}
    /\ (pc \in {"send", "done"} /\ i < depth) => (i >= 1 /\ NewIn(i - 1) = {})
    /\ (pc \in {"nicks", "idents", "hosts"} /\ i >= 1) => NewIn(i - 1) # {}
    /\ \A k \in 1..Len(queries) :
          queries[k].iter >= 1 => NewIn(queries[k].iter - 1) # {}

\* The loop has been left before the depth was reached, with all three
\* frontiers empty, after a first iteration whose searches returned rows and
\* inserted no sender
C21_LeftEarly ==
    /\ pc = "send"
    /\ i = 1
    /\ i < depth
    /\ AllEmpty
    /\ NewIn(0) = {}
    /\ QueriedIn("nick", 0) # {}
    /\ \E k \in 1..Len(queries) : queries[k].rows # {}

=============================================================================
